---- MODULE Spec2Model ----
(***************************************************************************)
(* R MCP bridge: health-gated dispatch of tool calls to an R HTTP backend. *)
(* Three server modules of the repository are modelled:                    *)
(*   "r_bridge"    src/r_bridge.py                                         *)
(*   "refactored"  src/old/r_bridge_refactored.py                          *)
(*   "hello"       src/hello_r_bridge.py                                   *)
(* A process runs one module; tool calls are served one at a time, each    *)
(* split at its suspension points (the awaits on the HTTP client).         *)
(***************************************************************************)
EXTENDS Integers, Sequences, FiniteSets, TLC

VARIABLES
    module,      \* which server module this process runs
    proc,        \* "imported" | "serving" | "exited"
    atexit,      \* sequence of registered exit handlers
    client,      \* http_client: "open" | "closed"
    closeCount,  \* number of times http_client.aclose() ran
    calls,       \* tool calls relayed to the host so far
    pc,          \* position of the current tool call
    tool,        \* name of the tool being served ("" when idle)
    args,        \* arguments bound by the caller (supplied ones only)
    sent,        \* requests handed to http_client in this call
    resp,        \* outcomes received from http_client in this call
    health,      \* "unknown" | "up" | "down": result of check_api_health
    outcome,     \* "none" | "returned" | "raised"
    result       \* value returned, or exception raised, by the tool

vars == <<module, proc, atexit, client, closeCount, calls, pc, tool, args,
          sent, resp, health, outcome, result>>

callVars == <<pc, tool, args, sent, resp, health, outcome, result>>
procVars == <<module, proc, atexit, client, closeCount>>

---------------------------------------------------------------------------
\* Bounds

MaxCalls == 2
MaxVecLen == 2
MaxCols == 2

---------------------------------------------------------------------------
\* Python values

PyNum(n)  == [kind |-> "num",  num   |-> n]
PyStr(s)  == [kind |-> "str",  str   |-> s]
PyBool(b) == [kind |-> "bool", bool  |-> b]
PyList(l) == [kind |-> "list", elems |-> l]
PyDict(d) == [kind |-> "dict", items |-> d]
PyNone    == [kind |-> "none", none  |-> TRUE]
PyExc(t, m) == [kind |-> "exception", type |-> t, msg |-> m]
Pending   == [kind |-> "pending", pending |-> TRUE]
EmptyDict == <<>>

isinstance_dict(v) == v.kind = "dict"
isinstance_str(v)  == v.kind = "str"

---------------------------------------------------------------------------
\* Outcomes of one await on http_client

Resp(s, t) == [exc |-> "", status |-> s, text |-> t]
Fail(e)    == [exc |-> e,  status |-> 0, text |-> ""]

TransportErrors == {"ConnectError", "ReadTimeout"}

\* response bodies the backend may send
B_map     == "{\"result\": 3}"
B_map2    == "{\"message\": \"Hello\", \"success\": true}"
B_strmap  == "\"{\\\"result\\\": 3}\""
B_strbad  == "\"bad formula\""
B_strnum  == "\"42\""
B_strlist == "\"[1, 2]\""
B_num     == "42"
B_list    == "[1, 2]"
B_null    == "null"
B_text    == "bad formula"
B_html    == "<html>"

Bodies == {B_map, B_map2, B_strmap, B_strbad, B_strnum, B_strlist,
           B_num, B_list, B_null, B_text, B_html}

ProbeStatuses == {200, 204, 404, 500}
PostStatuses  == {200, 201, 302, 404, 500}
StatusStatuses == {200, 404, 500}

ProbeOutcomes == {Fail(e) : e \in TransportErrors}
                 \cup {Resp(s, t) : s \in ProbeStatuses, t \in Bodies}
PostOutcomes  == {Fail(e) : e \in TransportErrors}
                 \cup {Resp(s, t) : s \in PostStatuses, t \in Bodies}
StatusOutcomes == {Fail(e) : e \in TransportErrors}
                 \cup {Resp(s, t) : s \in StatusStatuses, t \in Bodies}

---------------------------------------------------------------------------
\* Library behaviour used by the handlers

JSONDecodeMsg == "Expecting value: line 1 column 1 (char 0)"

\* json.loads / Response.json(): the parsed value, or ok = FALSE when
\* the text is not JSON
json_loads(t) ==
    CASE t = B_map     -> [ok |-> TRUE, value |-> PyDict([result |-> PyNum(3)])]
      [] t = B_map2    -> [ok |-> TRUE, value |->
                             PyDict([message |-> PyStr("Hello"), success |-> PyBool(TRUE)])]
      [] t = B_strmap  -> [ok |-> TRUE, value |-> PyStr("{\"result\": 3}")]
      [] t = B_strbad  -> [ok |-> TRUE, value |-> PyStr("bad formula")]
      [] t = B_strnum  -> [ok |-> TRUE, value |-> PyStr("42")]
      [] t = B_strlist -> [ok |-> TRUE, value |-> PyStr("[1, 2]")]
      [] t = B_num     -> [ok |-> TRUE, value |-> PyNum(42)]
      [] t = B_list    -> [ok |-> TRUE, value |-> PyList(<<PyNum(1), PyNum(2)>>)]
      [] t = B_null    -> [ok |-> TRUE, value |-> PyNone]
      [] OTHER         -> [ok |-> FALSE, value |-> PyNone]

\* Response.is_success
is_success(status) == status >= 200 /\ status <= 299

\* str(e) of the exception an await on http_client raised
ExcStr(e) ==
    CASE e = "ConnectError" -> "All connection attempts failed"
      [] e = "ReadTimeout"  -> ""
      [] OTHER              -> e

\* str(e) of the HTTPStatusError built by Response.raise_for_status()
StatusErrorStr(status) ==
    CASE status \div 100 = 1 -> "Informational response"
      [] status \div 100 = 3 -> "Redirect response"
      [] status \div 100 = 4 -> "Client error"
      [] status \div 100 = 5 -> "Server error"
      [] OTHER               -> "Invalid status code"

---------------------------------------------------------------------------
\* Modules and their tools

Modules == {"r_bridge", "refactored", "hello"}

StatusTools == {"r_status", "check_r_status"}

\* the tools that send generated R code
CodeTools(m) ==
    IF m = "r_bridge" THEN {"r_t_test"}
    ELSE IF m = "refactored" THEN {"r_t_test", "r_anova"}
    ELSE {}

Tools(m) ==
    IF m = "hello" THEN {"hello_r", "check_r_status", "add_numbers"}
    ELSE {"r_status", "r_execute", "r_call", "r_stats"}

GateMsgBase  == "R API server is not running. Please start it with: Rscript base_r_api.R"
GateMsgHello == "R API server is not running. Please start it with: Rscript hello_r_api.R"

Get(path)        == [method |-> "GET",  path |-> path, json |-> PyNone]
Post(path, body) == [method |-> "POST", path |-> path, json |-> body]

Endpoint(t) ==
    CASE t = "r_execute"   -> "/api/execute"
      [] t = "r_call"      -> "/api/call"
      [] t = "r_stats"     -> "/api/stats"
      [] t = "hello_r"     -> "/api/hello"
      [] t = "add_numbers" -> "/api/add"
      [] t = "r_t_test"    -> "/api/execute"
      [] t = "r_anova"     -> "/api/execute"
      [] OTHER             -> "/health"

---------------------------------------------------------------------------
\* Values of the code-generating tools

\* a float with one decimal digit, t tenths (25 is 2.5)
PyFloat(t) == [kind |-> "float", tenths |-> t]

\* a str that enters generated code, kept as the pieces it was built from;
\* the Python string is their concatenation
PyText(toks) == [kind |-> "str", toks |-> toks]

\* a dict whose iteration order matters: key/value pairs in insertion order
PyMapping(pairs) == [kind |-> "dict", pairs |-> pairs]

RECURSIVE Flatten(_)
Flatten(toks) ==
    IF toks = <<>> THEN "" ELSE Head(toks) \o Flatten(Tail(toks))

Elems == {PyNum(1), PyFloat(25)}
Vectors == UNION {[1..n -> Elems] : n \in 0..MaxVecLen}

ColumnNames == {"y", "g"}
Columns ==
    UNION {{c \in [1..n -> [k : ColumnNames, v : {PyList(w) : w \in Vectors}]] :
              \A i, j \in 1..n : i # j => c[i].k # c[j].k} : n \in 0..MaxCols}

Alternatives == {"two.sided", "less"}

\* arguments of a tool call after Python bound the declared defaults
\* (an optional parameter the caller left out is None)
SampleData == PyList(<<PyNum(1), PyNum(2)>>)

ArgSets(t) ==
    CASE t = "r_execute"   -> {[code |-> PyStr("1+1")]}
      [] t = "r_call"      -> {[func |-> PyStr("mean"), args |-> a] :
                                 a \in {PyNone, SampleData, PyDict([x |-> PyNum(1)])}}
      [] t = "r_stats"     -> {[data |-> SampleData, operation |-> PyStr(o)] :
                                 o \in {"summary", "mean"}}
      [] t = "hello_r"     -> {[name |-> n] : n \in {PyNone, PyStr(""), PyStr("Ann")}}
      [] t = "add_numbers" -> {[a |-> PyNum(x), b |-> PyNum(2)] : x \in {1, 2}}
      [] t = "r_t_test"    -> {[x |-> PyList(v), y |-> w, paired |-> PyBool(b),
                                alternative |-> PyText(<<alt>>)] :
                                 v \in Vectors,
                                 w \in {PyNone} \cup {PyList(u) : u \in Vectors},
                                 b \in BOOLEAN, alt \in Alternatives}
      [] t = "r_anova"     -> {[formula |-> PyText(<<"y ~ g">>), data |-> PyMapping(c)] :
                                 c \in Columns}
      [] OTHER             -> {EmptyDict}

\* Python truth value of an optional string
Truthy(v) == v.kind = "str" /\ v.str # ""

---------------------------------------------------------------------------
\* Code generation

Digit(d) ==
    CASE d = 0 -> "0" [] d = 1 -> "1" [] d = 2 -> "2" [] d = 3 -> "3"
      [] d = 4 -> "4" [] d = 5 -> "5" [] d = 6 -> "6" [] d = 7 -> "7"
      [] d = 8 -> "8" [] d = 9 -> "9"

RECURSIVE NatStr(_)
NatStr(n) == IF n < 10 THEN Digit(n) ELSE NatStr(n \div 10) \o Digit(n % 10)

Abs(n) == IF n < 0 THEN 0 - n ELSE n
Sign(n) == IF n < 0 THEN "-" ELSE ""

\* str(value)
py_str(v) ==
    CASE v.kind = "num"   -> Sign(v.num) \o NatStr(Abs(v.num))
      [] v.kind = "float" -> Sign(v.tenths) \o NatStr(Abs(v.tenths) \div 10)
                                \o "." \o Digit(Abs(v.tenths) % 10)
      [] v.kind = "bool"  -> IF v.bool THEN "True" ELSE "False"
      [] v.kind = "none"  -> "None"
      [] v.kind = "str"   -> Flatten(v.toks)

\* str.upper() on the text of a bool
str_upper(s) ==
    CASE s = "True"  -> "TRUE"
      [] s = "False" -> "FALSE"
      [] OTHER       -> s

\* sep.join(parts), every part a sequence of pieces
RECURSIVE JoinSeqs(_, _)
JoinSeqs(parts, sep) ==
    IF parts = <<>> THEN <<>>
    ELSE IF Len(parts) = 1 THEN parts[1]
    ELSE parts[1] \o <<sep>> \o JoinSeqs(Tail(parts), sep)

\* ', '.join(map(str, values))
join_map_str(values) ==
    JoinSeqs([i \in 1..Len(values) |-> <<py_str(values[i])>>], ", ")

\* r_bridge_refactored.py format_r_vector
format_r_vector(values) == <<"c(">> \o join_map_str(values) \o <<")">>

\* variant: the template is chosen by the truth value of y
r_t_test_code_truthy(a) ==
    IF a.y = PyNone \/ a.y.elems = <<>>
    THEN <<"\n        ", "x", " <- ", "c(">> \o join_map_str(a.x.elems) \o <<")",
           "\n        ", "t.test(", "x", ", ", "alternative", " = ", "\"">>
           \o a.alternative.toks \o <<"\"", ")", "\n        ">>
    ELSE <<"\n        ", "x", " <- ", "c(">> \o join_map_str(a.x.elems) \o <<")",
           "\n        ", "y", " <- ", "c(">> \o join_map_str(a.y.elems) \o <<")",
           "\n        ", "t.test(", "x", ", ", "y", ", ", "paired", " = ",
           str_upper(py_str(a.paired)), ", ", "alternative", " = ", "\"">>
           \o a.alternative.toks \o <<"\"", ")", "\n        ">>

\* r_bridge.py r_t_test: the f-string of each branch, piece by piece
r_t_test_code(a) ==
    IF a.y = PyNone
    THEN <<"\n        ", "x", " <- ", "c(">> \o join_map_str(a.x.elems) \o <<")",
           "\n        ", "t.test(", "x", ", ", "alternative", " = ", "\"">>
           \o a.alternative.toks \o <<"\"", ")", "\n        ">>
    ELSE <<"\n        ", "x", " <- ", "c(">> \o join_map_str(a.x.elems) \o <<")",
           "\n        ", "y", " <- ", "c(">> \o join_map_str(a.y.elems) \o <<")",
           "\n        ", "t.test(", "x", ", ", "y", ", ", "paired", " = ",
           str_upper(py_str(a.paired)), ", ", "alternative", " = ", "\"">>
           \o a.alternative.toks \o <<"\"", ")", "\n        ">>

\* a template is a sequence of literal pieces and replacement fields
Lit(s)   == [lit |-> s,  field |-> ""]
Field(f) == [lit |-> "", field |-> f]

UnquotedKeys == {"method", "alternative", "formula"}

\* build_r_code, the conversion loop: lists become R vectors, bools the
\* upper-case token, strs are quoted unless the key is a keyword
format_kwarg(key, value) ==
    IF value.kind = "list" THEN PyText(format_r_vector(value.elems))
    ELSE IF value.kind = "bool" THEN PyText(<<str_upper(py_str(value))>>)
    ELSE IF value.kind = "str" /\ key \notin UnquotedKeys
         THEN PyText(<<"\"">> \o value.toks \o <<"\"">>)
    ELSE value

\* what str.format puts in place of a field
FieldText(v) == IF v.kind = "str" THEN v.toks ELSE <<py_str(v)>>

RECURSIVE ConcatAll(_)
ConcatAll(parts) ==
    IF parts = <<>> THEN <<>> ELSE Head(parts) \o ConcatAll(Tail(parts))

\* build_r_code: template.format(**kwargs) after the conversion loop
build_r_code(template, kwargs) ==
    ConcatAll([i \in 1..Len(template) |->
                 IF template[i].field = "" THEN <<template[i].lit>>
                 ELSE FieldText(format_kwarg(template[i].field,
                                             kwargs[template[i].field]))])

\* r_bridge_refactored.py r_t_test: the two templates
TTestOneSample ==
    <<Lit("\n            "), Lit("x"), Lit(" <- "), Field("x"),
      Lit("\n            "), Lit("t.test("), Lit("x"), Lit(", "),
      Lit("alternative"), Lit(" = "), Lit("\""), Field("alternative"),
      Lit("\""), Lit(")"), Lit("\n            ")>>

TTestTwoSample ==
    <<Lit("\n            "), Lit("x"), Lit(" <- "), Field("x"),
      Lit("\n            "), Lit("y"), Lit(" <- "), Field("y"),
      Lit("\n            "), Lit("t.test("), Lit("x"), Lit(", "), Lit("y"),
      Lit(", "), Lit("paired"), Lit(" = "), Field("paired"), Lit(", "),
      Lit("alternative"), Lit(" = "), Lit("\""), Field("alternative"),
      Lit("\""), Lit(")"), Lit("\n            ")>>

\* r_bridge_refactored.py r_t_test
r_t_test_refactored_code(a) ==
    IF a.y = PyNone
    THEN build_r_code(TTestOneSample, [x |-> a.x, alternative |-> a.alternative])
    ELSE build_r_code(TTestTwoSample, [x |-> a.x, y |-> a.y, paired |-> a.paired,
                                       alternative |-> a.alternative])

\* r_bridge_refactored.py r_anova: the template
AnovaTemplate ==
    <<Lit("df"), Lit(" <- "), Lit("data.frame("), Field("data_args"), Lit(")"),
      Lit("\n"), Lit("model"), Lit(" <- "), Lit("aov("), Field("formula"),
      Lit(", "), Lit("data"), Lit(" = "), Lit("df"), Lit(")"),
      Lit("\n"), Lit("summary("), Lit("model"), Lit(")")>>

\* ", ".join(f"{k} = {format_r_vector(v)}" for k, v in data.items())
data_args(pairs) ==
    JoinSeqs([i \in 1..Len(pairs) |->
                <<pairs[i].k, " = ">> \o format_r_vector(pairs[i].v.elems)], ", ")

\* r_bridge_refactored.py r_anova
r_anova_code(a) ==
    build_r_code(AnovaTemplate,
                 [data_args |-> PyText(data_args(a.data.pairs)),
                  formula   |-> a.formula])

\* the source text a code tool generates
GeneratedCode(m, t, a) ==
    CASE t = "r_anova"                     -> r_anova_code(a)
      [] t = "r_t_test" /\ m = "r_bridge"  -> r_t_test_code(a)
      [] OTHER                             -> r_t_test_refactored_code(a)

\* return await call_r_api("/api/execute", {"code": code})
code_payload(code) == [code |-> PyStr(Flatten(code))]


---------------------------------------------------------------------------
\* Payload construction

\* r_bridge.py r_call: args joins the payload only when it is not None
r_call_payload(a) ==
    IF a.args # PyNone THEN [func |-> a.func, args |-> a.args]
    ELSE [func |-> a.func]

\* r_bridge.py r_execute / r_stats: literal payloads
r_execute_payload(a) == [code |-> a.code]
r_stats_payload(a)   == [data |-> a.data, operation |-> a.operation]

\* r_bridge_refactored.py create_simple_r_tool: the payload is the bound
\* argument mapping after apply_defaults()
create_simple_r_tool_payload(a) == a

\* hello_r_bridge.py hello_r: name joins the payload only when truthy
hello_r_payload(a) ==
    IF Truthy(a.name) THEN [name |-> a.name] ELSE EmptyDict

add_numbers_payload(a) == [a |-> a.a, b |-> a.b]

BuildPayload(m, t, a) ==
    CASE t \in CodeTools(m)             -> code_payload(GeneratedCode(m, t, a))
      [] m = "refactored" /\ t \notin CodeTools(m)
                                        -> create_simple_r_tool_payload(a)
      [] m = "hello" /\ t = "hello_r"   -> hello_r_payload(a)
      [] m = "hello"                    -> add_numbers_payload(a)
      [] m = "r_bridge" /\ t = "r_call" -> r_call_payload(a)
      [] m = "r_bridge" /\ t = "r_execute" -> r_execute_payload(a)
      [] OTHER                          -> r_stats_payload(a)

---------------------------------------------------------------------------
\* Health gate

\* variant: any 2xx answer counts as healthy
check_api_health_any_2xx(o) ==
    IF o.exc # "" THEN FALSE ELSE is_success(o.status)

check_api_health(o) ==
    IF o.exc # "" THEN FALSE ELSE o.status = 200

Returned(v) == [outcome |-> "returned", value |-> v]
Raised(e)   == [outcome |-> "raised",   value |-> e]

\* r_bridge.py / r_bridge_refactored.py: ensure_api_running raises, and
\* call_r_api awaits it outside its try block
ensure_api_running_failure == Raised(PyExc("RBridgeError", GateMsgBase))

\* hello_r_bridge.py hello_r / add_numbers: the gate returns a record
hello_gate_failure ==
    Returned(PyDict([error |-> PyStr(GateMsgHello), success |-> PyBool(FALSE)]))

GateFailure(m) ==
    IF m = "hello" THEN hello_gate_failure ELSE ensure_api_running_failure

---------------------------------------------------------------------------
\* Response normalisation

ErrorRecord(msg) == PyDict([success |-> PyBool(FALSE), error |-> PyStr(msg)])

\* the non-dict branch: json.loads(data) if isinstance(data, str)
\* else {"data": data}; ok = FALSE when json.loads raised
second_parse(data) ==
    IF isinstance_str(data) THEN json_loads(data.str)
    ELSE [ok |-> TRUE, value |-> PyDict([data |-> data])]

\* variant: the backend's error body is decoded before it is reported
http_status_error_decoded(o) ==
    LET p == json_loads(o.text) IN
    IF p.ok /\ isinstance_str(p.value)
    THEN ErrorRecord("API error: " \o p.value.str)
    ELSE ErrorRecord("API error: " \o o.text)

\* except httpx.HTTPStatusError: the raw response text is reported
http_status_error(o) == ErrorRecord("API error: " \o o.text)

\* variant: a success flag is added to the backend's mapping
return_mapping_with_success(data) ==
    PyDict(data.items @@ [success |-> PyBool(TRUE)])

\* if isinstance(data, dict): return data
return_mapping(data) == data

\* the try block of call_r_api (and of hello_r / add_numbers) applied to
\* the outcome of the POST
call_r_api_result(o) ==
    IF o.exc # "" THEN ErrorRecord(ExcStr(o.exc))
    ELSE IF ~is_success(o.status) THEN http_status_error(o)
    ELSE LET p == json_loads(o.text) IN
         IF ~p.ok THEN ErrorRecord(JSONDecodeMsg)
         ELSE IF isinstance_dict(p.value) THEN return_mapping(p.value)
         ELSE LET q == second_parse(p.value) IN
              IF q.ok THEN q.value ELSE ErrorRecord(JSONDecodeMsg)

OfflineRecord(err, msg) ==
    PyDict([status |-> PyStr("offline"), error |-> PyStr(err), message |-> PyStr(msg)])

\* variant: failures of the liveness tool reported as the generic record
r_status_result_generic_error(o) ==
    IF o.exc # "" THEN ErrorRecord(ExcStr(o.exc))
    ELSE IF ~is_success(o.status) THEN ErrorRecord(StatusErrorStr(o.status))
    ELSE LET p == json_loads(o.text) IN
         IF ~p.ok THEN ErrorRecord(JSONDecodeMsg)
         ELSE p.value

\* r_bridge.py / r_bridge_refactored.py r_status
r_status_result(o) ==
    IF o.exc # "" THEN OfflineRecord(ExcStr(o.exc), "R API server is not running")
    ELSE IF ~is_success(o.status)
         THEN OfflineRecord(StatusErrorStr(o.status), "R API server is not running")
    ELSE LET p == json_loads(o.text) IN
         IF ~p.ok THEN OfflineRecord(JSONDecodeMsg, "R API server is not running")
         ELSE p.value

\* hello_r_bridge.py check_r_status
check_r_status_result(o) ==
    IF o.exc # "" THEN OfflineRecord(ExcStr(o.exc), GateMsgHello)
    ELSE IF ~is_success(o.status)
         THEN OfflineRecord(StatusErrorStr(o.status), GateMsgHello)
    ELSE LET p == json_loads(o.text) IN
         IF ~p.ok THEN OfflineRecord(JSONDecodeMsg, GateMsgHello)
         ELSE IF isinstance_dict(p.value) THEN p.value
         ELSE LET q == second_parse(p.value) IN
              IF q.ok THEN q.value ELSE OfflineRecord(JSONDecodeMsg, GateMsgHello)

StatusResult(m, o) ==
    IF m = "hello" THEN check_r_status_result(o) ELSE r_status_result(o)

\* where a tool call goes once its first await is due: the liveness tools
\* GET /health themselves, every other tool enters the health gate
EntryPc(t) == IF t \in StatusTools THEN "status_send" ELSE "probe_send"

\* variant: a failed POST is sent once more
AfterPost_retry(o) ==
    IF (o.exc # "" \/ ~is_success(o.status)) /\ Len(sent) < 3
    THEN "post_send" ELSE "done"

\* where a call goes after the POST completed: the handlers have no loop,
\* every branch of the try block returns
AfterPost(o) == "done"

\* where a call goes after the probe completed
AfterProbe(healthy) == IF healthy THEN "post_send" ELSE "done"

---------------------------------------------------------------------------
\* Initial state: the module was imported, which created http_client

Init ==
    /\ module \in Modules
    /\ proc = "imported"
    /\ atexit = <<>>
    /\ client = "open"
    /\ closeCount = 0
    /\ calls = 0
    /\ pc = "idle"
    /\ tool = ""
    /\ args = EmptyDict
    /\ sent = <<>>
    /\ resp = <<>>
    /\ health = "unknown"
    /\ outcome = "none"
    /\ result = Pending

---------------------------------------------------------------------------
\* Process lifecycle

\* main() / the __main__ block: register the exit hook, then server.run()
main ==
    /\ proc = "imported"
    /\ atexit' = Append(atexit, "cleanup")
    /\ proc' = "serving"
    /\ UNCHANGED <<module, client, closeCount, calls>>
    /\ UNCHANGED callVars

\* cleanup(): await http_client.aclose(), once per registered hook
cleanup_runs(handlers) == Len(handlers)

\* the interpreter exits (server.run() returned, SystemExit, an uncaught
\* exception, KeyboardInterrupt): the atexit hooks run
InterpreterExit ==
    /\ proc = "serving"
    /\ closeCount' = closeCount + cleanup_runs(atexit)
    /\ client' = IF cleanup_runs(atexit) > 0 THEN "closed" ELSE client
    /\ proc' = "exited"
    /\ UNCHANGED <<module, atexit, calls>>
    /\ UNCHANGED callVars

\* the process is killed by a signal Python does not handle, by os._exit
\* or by a fatal interpreter error: atexit hooks do not run
Killed ==
    /\ proc = "serving"
    /\ proc' = "exited"
    /\ UNCHANGED <<module, atexit, client, closeCount, calls>>
    /\ UNCHANGED callVars

---------------------------------------------------------------------------
\* Tool calls

\* the host invokes a tool with bound arguments
Invoke(t, a) ==
    /\ proc = "serving"
    /\ pc = "idle"
    /\ calls < MaxCalls
    /\ tool' = t
    /\ args' = a
    /\ pc' = EntryPc(t)
    /\ UNCHANGED <<sent, resp, health, outcome, result, calls>>
    /\ UNCHANGED procVars

\* check_api_health: await http_client.get("/health")
ProbeSend ==
    /\ proc = "serving"
    /\ pc = "probe_send"
    /\ sent' = Append(sent, Get("/health"))
    /\ pc' = "probe_wait"
    /\ UNCHANGED <<tool, args, resp, health, outcome, result, calls>>
    /\ UNCHANGED procVars

\* the probe completes and the gate decides
ProbeRecv(o) ==
    /\ proc = "serving"
    /\ pc = "probe_wait"
    /\ resp' = Append(resp, o)
    /\ health' = IF check_api_health(o) THEN "up" ELSE "down"
    /\ pc' = AfterProbe(check_api_health(o))
    /\ IF check_api_health(o)
       THEN UNCHANGED <<outcome, result>>
       ELSE /\ outcome' = GateFailure(module).outcome
            /\ result' = GateFailure(module).value
    /\ UNCHANGED <<tool, args, sent, calls>>
    /\ UNCHANGED procVars

\* await http_client.post(endpoint, json=payload)
PostSend ==
    /\ proc = "serving"
    /\ pc = "post_send"
    /\ sent' = Append(sent, Post(Endpoint(tool), PyDict(BuildPayload(module, tool, args))))
    /\ pc' = "post_wait"
    /\ UNCHANGED <<tool, args, resp, health, outcome, result, calls>>
    /\ UNCHANGED procVars

\* the POST completes: the rest of the try block runs to its return
PostRecv(o) ==
    /\ proc = "serving"
    /\ pc = "post_wait"
    /\ resp' = Append(resp, o)
    /\ pc' = AfterPost(o)
    /\ outcome' = "returned"
    /\ result' = call_r_api_result(o)
    /\ UNCHANGED <<tool, args, sent, health, calls>>
    /\ UNCHANGED procVars

\* r_status / check_r_status: await http_client.get("/health")
StatusSend ==
    /\ proc = "serving"
    /\ pc = "status_send"
    /\ sent' = Append(sent, Get("/health"))
    /\ pc' = "status_wait"
    /\ UNCHANGED <<tool, args, resp, health, outcome, result, calls>>
    /\ UNCHANGED procVars

StatusRecv(o) ==
    /\ proc = "serving"
    /\ pc = "status_wait"
    /\ resp' = Append(resp, o)
    /\ pc' = "done"
    /\ outcome' = "returned"
    /\ result' = StatusResult(module, o)
    /\ UNCHANGED <<tool, args, sent, health, calls>>
    /\ UNCHANGED procVars

\* the host takes the value (or the exception) and the call is over
Relay ==
    /\ proc = "serving"
    /\ pc = "done"
    /\ calls' = calls + 1
    /\ pc' = "idle"
    /\ tool' = ""
    /\ args' = EmptyDict
    /\ sent' = <<>>
    /\ resp' = <<>>
    /\ health' = "unknown"
    /\ outcome' = "none"
    /\ result' = Pending
    /\ UNCHANGED procVars

Next ==
    \/ main
    \/ InterpreterExit
    \/ Killed
    \/ \E t \in Tools(module) : \E a \in ArgSets(t) : Invoke(t, a)
    \/ ProbeSend
    \/ \E o \in ProbeOutcomes : ProbeRecv(o)
    \/ PostSend
    \/ \E o \in PostOutcomes : PostRecv(o)
    \/ StatusSend
    \/ \E o \in StatusOutcomes : StatusRecv(o)
    \/ Relay

Spec == Init /\ [][Next]_vars

---------------------------------------------------------------------------
\* The code-generating tools, served by the same dispatch

GenProbeOutcomes == {Fail("ConnectError"), Resp(200, B_map)}
GenPostOutcomes  == {Fail("ReadTimeout"), Resp(200, B_map), Resp(500, B_text)}

InitGen == Init /\ CodeTools(module) # {}

NextGen ==
    \/ main
    \/ InterpreterExit
    \/ Killed
    \/ /\ proc = "serving" /\ pc = "idle" /\ calls < MaxCalls
       /\ \E t \in CodeTools(module) : \E a \in ArgSets(t) : Invoke(t, a)
    \/ ProbeSend
    \/ \E o \in GenProbeOutcomes : ProbeRecv(o)
    \/ PostSend
    \/ \E o \in GenPostOutcomes : PostRecv(o)
    \/ Relay

SpecGen == InitGen /\ [][NextGen]_vars

---------------------------------------------------------------------------
\* Shapes used by the properties

TypeOK ==
    /\ module \in Modules
    /\ proc \in {"imported", "serving", "exited"}
    /\ client \in {"open", "closed"}
    /\ calls \in 0..MaxCalls
    /\ pc \in {"idle", "probe_send", "probe_wait", "post_send", "post_wait",
               "status_send", "status_wait", "done"}
    /\ health \in {"unknown", "up", "down"}
    /\ outcome \in {"none", "returned", "raised"}

Methods(m) == {i \in 1..Len(sent) : sent[i].method = m}

\* the call went through the gate, POSTed, and the POST was answered
PostAnswered ==
    /\ pc = "done"
    /\ tool \notin StatusTools
    /\ health = "up"
    /\ Len(resp) = 2
    /\ resp[2].exc = ""

\* the liveness tool's GET completed
StatusAnswered ==
    /\ pc = "done"
    /\ tool \in StatusTools
    /\ Len(resp) = 1

---------------------------------------------------------------------------
\* C1: a dispatch never raises to its caller: whatever the probe and the
\* backend do, a finished call has returned a result record and no
\* exception reaches the host.
C1_NeverRaises ==
    /\ outcome # "raised"
    /\ (pc = "done" => outcome = "returned")

\* C2: a POST is sent only after the probe of the same call returned true;
\* when the probe returns false the call sends no POST and returns a
\* record with success = false and the unreachable message with the
\* start-command hint.
C2_HealthGated ==
    /\ (Methods("POST") # {} => health = "up")
    /\ (health = "down" =>
          /\ Methods("POST") = {}
          /\ outcome = "returned"
          /\ result.kind = "dict"
          /\ DOMAIN result.items = {"success", "error"}
          /\ result.items.success = PyBool(FALSE)
          /\ result.items.error \in {PyStr(GateMsgBase), PyStr(GateMsgHello)})

\* C3: when the probe passed and the backend answers the POST with a
\* non-2xx status and body text t, the result is exactly
\* {success: false, error: "API error: " + t}.
C3_NonSuccessPassthrough ==
    (PostAnswered /\ resp[2].status \notin 200..299) =>
        /\ outcome = "returned"
        /\ result = PyDict([success |-> PyBool(FALSE),
                            error |-> PyStr("API error: " \o resp[2].text)])

C3_Witness ==
    /\ PostAnswered
    /\ resp[2] = Resp(500, B_text)
    /\ result = PyDict([success |-> PyBool(FALSE),
                        error |-> PyStr("API error: bad formula")])

\* C4: when the probe passed and the backend answers the POST with a 2xx
\* status whose body parses as a JSON mapping m, the result equals m: no
\* field added, removed or renamed, no success field injected.
C4_MappingUnchanged ==
    (/\ PostAnswered
     /\ resp[2].status \in 200..299
     /\ json_loads(resp[2].text).ok
     /\ json_loads(resp[2].text).value.kind = "dict") =>
        /\ outcome = "returned"
        /\ result = json_loads(resp[2].text).value
        /\ (resp[2].text = B_map => result = PyDict([result |-> PyNum(3)]))

C4_Witness ==
    /\ PostAnswered
    /\ resp[2] = Resp(200, B_map)
    /\ result = PyDict([result |-> PyNum(3)])
    /\ "success" \notin DOMAIN result.items

\* C5: on a 2xx body that parses as a JSON string s the dispatch parses s
\* again; a mapping from the second parse is returned, anything else (a
\* failed parse, a number, an array, a string, null) is wrapped as
\* {data: <value>}; so a 2xx response with parseable body always yields
\* a mapping.
C5_DoubleEncoded ==
    (/\ PostAnswered
     /\ resp[2].status \in 200..299
     /\ json_loads(resp[2].text).ok) =>
        LET first == json_loads(resp[2].text).value IN
        /\ result.kind = "dict"
        /\ (first.kind = "str" =>
              LET second == json_loads(first.str) IN
              IF second.ok /\ second.value.kind = "dict"
              THEN result = second.value
              ELSE \/ result = PyDict([data |-> first])
                   \/ (second.ok /\ result = PyDict([data |-> second.value])))

\* C6: check_api_health performs a single GET on /health and never
\* raises: it yields true exactly when a response with status 200 arrived,
\* false on any other status or transport failure, whatever the body.
C6_ProbeIff200 ==
    (health # "unknown") =>
        /\ Len(resp) >= 1
        /\ sent[1] = Get("/health")
        /\ Cardinality(Methods("GET")) = 1
        /\ (health = "up" <=> (resp[1].exc = "" /\ resp[1].status = 200))
        /\ (health = "down" <=> (resp[1].exc # "" \/ resp[1].status # 200))

C6_Witness ==
    /\ health = "down"
    /\ resp[1] = Resp(204, B_map)
    /\ Cardinality(Methods("GET")) = 1

\* C7: the liveness tool does not go through the health gate: it issues
\* exactly one GET /health, never raises, returns on any failure a record
\* with status = "offline" plus error and message (not the generic
\* {success: false, error} record), and on success the backend's mapping.
C7_StatusTool ==
    (tool \in StatusTools) =>
        /\ health = "unknown"
        /\ Methods("POST") = {}
        /\ Len(sent) <= 1
        /\ outcome # "raised"
        /\ (pc = "done" =>
              /\ sent = <<Get("/health")>>
              /\ Len(resp) = 1
              /\ outcome = "returned"
              /\ ((\/ resp[1].exc # ""
                   \/ resp[1].status \notin 200..299
                   \/ ~json_loads(resp[1].text).ok) =>
                     /\ result.kind = "dict"
                     /\ DOMAIN result.items = {"status", "error", "message"}
                     /\ result.items.status = PyStr("offline"))
              /\ ((/\ resp[1].exc = ""
                   /\ resp[1].status \in 200..299
                   /\ json_loads(resp[1].text).ok
                   /\ json_loads(resp[1].text).value.kind = "dict") =>
                     result = json_loads(resp[1].text).value))

C7_Witness ==
    /\ StatusAnswered
    /\ resp[1] = Resp(500, B_text)
    /\ result.kind = "dict"
    /\ result.items.status = PyStr("offline")
    /\ "success" \notin DOMAIN result.items

\* C8: for r_call's args and hello_r's name, a parameter the caller left
\* absent is not a key of the payload sent to the backend (never present
\* as null), and a supplied parameter is carried unchanged.
OptionalParam(t) == IF t = "hello_r" THEN "name" ELSE "args"

C8_OptionalOmitted ==
    \A i \in Methods("POST") :
        (tool \in {"r_call", "hello_r"}) =>
            LET k == OptionalParam(tool)
                payload == sent[i].json.items IN
            IF args[k] = PyNone
            THEN k \notin DOMAIN payload
            ELSE k \in DOMAIN payload /\ payload[k] = args[k]

\* C9: no retries: within one tool call at most one health probe and at
\* most one POST are sent, whatever the outcome; a failed attempt is
\* reported and never re-sent.
C9_NoRetries ==
    /\ Cardinality(Methods("GET")) <= 1
    /\ Cardinality(Methods("POST")) <= 1
    /\ Len(sent) <= 2
    /\ Len(resp) <= Len(sent)
    /\ (pc \in {"post_send", "status_send", "probe_send"} => Len(resp) = Len(sent))

C9_Witness ==
    /\ pc = "done"
    /\ Len(sent) = 2
    /\ Len(resp) = 2
    /\ resp[2] = Fail("ConnectError")
    /\ result = PyDict([success |-> PyBool(FALSE),
                        error |-> PyStr("All connection attempts failed")])

\* C10: the shared HTTP client created at process start is closed exactly
\* once when the process shuts down, on every shutdown path including
\* abnormal termination, and never while the server is still running.
C10_ClosedExactlyOnce ==
    /\ (proc = "exited" => (closeCount = 1 /\ client = "closed"))
    /\ (proc # "exited" => (closeCount = 0 /\ client = "open"))

---------------------------------------------------------------------------
\* Generated code, as the properties read it

IndentPieces == {"\n", "\n        ", "\n            "}

\* the pieces of a text without the line breaks and indentation
Visible(code) == SelectSeq(code, LAMBDA t : t \notin IndentPieces)

Count(code, piece) == Cardinality({i \in 1..Len(code) : code[i] = piece})

\* the R literal of a sample element
ElemText(e) == IF e = PyNum(1) THEN "1" ELSE "2.5"

\* c(e1, e2, ...) with the elements in input order
RECURSIVE ElemList(_)
ElemList(l) ==
    IF l = <<>> THEN <<>>
    ELSE IF Len(l) = 1 THEN <<ElemText(l[1])>>
    ELSE <<ElemText(l[1]), ", ">> \o ElemList(Tail(l))

VectorText(l) == <<"c(">> \o ElemList(l) \o <<")">>

\* name = c(...) fragments of a data mapping, comma-joined in its order
RECURSIVE FrameArgs(_)
FrameArgs(pairs) ==
    IF pairs = <<>> THEN <<>>
    ELSE IF Len(pairs) = 1 THEN <<pairs[1].k, " = ">> \o VectorText(pairs[1].v.elems)
    ELSE <<pairs[1].k, " = ">> \o VectorText(pairs[1].v.elems) \o <<", ">>
         \o FrameArgs(Tail(pairs))

\* a code tool has handed its POST to the client
CodeSent(t) == tool = t /\ Len(sent) = 2

\* C11: r_t_test selects its template by the presence of y: without y the
\* code has exactly one sample binding (x, elements in input order) and a
\* t.test call with only the alternative value and no paired argument;
\* with y it binds x then y and calls t.test with paired as TRUE or FALSE
\* and the same alternative; the code is sent as {code: <text>} to
\* /api/execute.
C11_TTestTemplate ==
    CodeSent("r_t_test") =>
        LET code == GeneratedCode(module, tool, args)
            alt  == args.alternative.toks[1]
            call == <<"alternative", " = ", "\"", alt, "\"", ")">>
        IN
        /\ sent[2] = Post("/api/execute", PyDict([code |-> PyStr(Flatten(code))]))
        /\ IF args.y = PyNone
           THEN /\ Count(code, " <- ") = 1
                /\ Count(code, "paired") = 0
                /\ Visible(code) = <<"x", " <- ">> \o VectorText(args.x.elems)
                                   \o <<"t.test(", "x", ", ">> \o call
           ELSE /\ Count(code, " <- ") = 2
                /\ Visible(code) = <<"x", " <- ">> \o VectorText(args.x.elems)
                                   \o <<"y", " <- ">> \o VectorText(args.y.elems)
                                   \o <<"t.test(", "x", ", ", "y", ", ", "paired", " = ",
                                        IF args.paired.bool THEN "TRUE" ELSE "FALSE",
                                        ", ">> \o call

C11_Witness ==
    /\ CodeSent("r_t_test")
    /\ module = "r_bridge"
    /\ args.x = PyList(<<PyNum(1), PyFloat(25)>>)
    /\ args.y = PyNone
    /\ args.paired = PyBool(TRUE)
    /\ sent[2].path = "/api/execute"
    /\ sent[2].json = PyDict([code |-> PyStr(
         "\n        x <- c(1, 2.5)\n        t.test(x, alternative = \"less\")\n        ")])

\* C12: r_anova encodes the data mapping as comma-joined name = c(...)
\* fragments in the mapping's iteration order, placed bare (not wrapped
\* in quotes) as the arguments of data.frame(...), and passes the formula
\* unquoted as the first argument of aov(...).
C12_AnovaBare ==
    CodeSent("r_anova") =>
        LET code == GeneratedCode(module, tool, args) IN
        /\ sent[2] = Post("/api/execute", PyDict([code |-> PyStr(Flatten(code))]))
        /\ Visible(code) =
             <<"df", " <- ", "data.frame(">> \o FrameArgs(args.data.pairs) \o <<")",
               "model", " <- ", "aov(">> \o args.formula.toks \o <<", ", "data",
               " = ", "df", ")", "summary(", "model", ")">>

====
